---------------------------- MODULE Spec2Model ----------------------------
(***************************************************************************)
(* Model of src/final.cpp: a three-party token authentication simulation   *)
(* (Trusted Authority, Node, Middleware) driven by a pool of worker        *)
(* threads that claim node indices from a shared atomic counter, append    *)
(* one NodeMetrics record per node to a mutex-guarded result vector, and   *)
(* a main thread that joins the pool and aggregates the records.           *)
(*                                                                         *)
(* Strings are sequences of byte values (ASCII codes), so that find,       *)
(* substr, hex encoding and the cipher are computed, not assumed.          *)
(***************************************************************************)
EXTENDS Integers, Sequences, FiniteSets, TLC

(***************************************************************************)
(* Bounds of the model.                                                    *)
(***************************************************************************)
\* largest --nodes argument explored
MaxNodes == 2
\* number of distinct random tokens genTokenHex can return
NumTokens == 2
\* number of distinct initialisation vectors aesEncryptHex can draw
NumIVs == 1
\* longest list median_of_vec is called with
MaxLen == 4

(***************************************************************************)
(* std::string helpers.                                                    *)
(***************************************************************************)
\* std::string::npos
npos == -1

\* a byte string given as a function on 1..n, as the tuple of its bytes
Bytes(f) == f \o <<>>

\* F applied to the values of its arguments: an argument that F reads
\* many times is computed once (C++ passes the object, not the expression)
Once1(F(_), a) == CHOOSE r \in {F(x) : x \in {a}} : TRUE
Once2(F(_, _), a, b) == CHOOSE r \in {F(x, y) : x \in {a}, y \in {b}} : TRUE
Once3(F(_, _, _), a, b, c) ==
    CHOOSE r \in {F(x, y, z) : x \in {a}, y \in {b}, z \in {c}} : TRUE

\* s.substr(pos) with a 0-based position
SubstrFrom(s, pos) ==
    LET tail(t) == SubSeq(t, pos + 1, Len(t))
    IN  Once1(tail, s)

\* s.substr(pos, n) with a 0-based position
Substr(s, pos, n) ==
    LET part(t) == SubSeq(t, pos + 1, pos + n)
    IN  Once1(part, s)

\* does pat occur in s at 0-based position p
MatchAt(s, pat, p) ==
    /\ p + Len(pat) <= Len(s)
    /\ \A k \in 1..Len(pat) : s[p + k] = pat[k]

\* s.find(pat, from): the first 0-based position >= from, or npos
FindFrom(s, pat, from) ==
    LET first(t) ==
            LET hits == {p \in from..(Len(t) - Len(pat)) : MatchAt(t, pat, p)}
            IN  IF hits = {} THEN npos
                ELSE CHOOSE p \in hits : \A q \in hits : p <= q
    IN  Once1(first, s)

\* s.find(pat)
Find(s, pat) == FindFrom(s, pat, 0)

\* std::string(n, c) for n >= 0
FillString(n, c) == Bytes([i \in 1..n |-> c])

RECURSIVE DecimalDigits(_)
DecimalDigits(n) ==
    IF n < 10 THEN <<48 + n>>
    ELSE Append(DecimalDigits(n \div 10), 48 + (n % 10))

\* std::to_string(int)
to_string(n) == IF n < 0 THEN <<45>> \o DecimalDigits(-n) ELSE DecimalDigits(n)

(***************************************************************************)
(* Hex encode / decode.                                                    *)
(***************************************************************************)
\* lower-case digit of a nibble (HexEncoder(..., false))
HexDigit(n) == IF n < 10 THEN 48 + n ELSE 87 + n

IsHexChar(c) ==
    \/ c \in 48..57
    \/ c \in 65..70
    \/ c \in 97..102

HexVal(c) ==
    IF c \in 48..57 THEN c - 48
    ELSE IF c \in 65..70 THEN c - 55
    ELSE c - 87

toHex(input) ==
    LET encoded(s) ==
            Bytes([i \in 1..(2 * Len(s)) |->
                IF i % 2 = 1 THEN HexDigit(s[(i + 1) \div 2] \div 16)
                ELSE HexDigit(s[i \div 2] % 16)])
    IN  Once1(encoded, input)

\* HexDecoder skips every character that is no hex digit and drops a
\* trailing half byte
fromHex(hex) ==
    LET decoded(digits) ==
            Bytes([i \in 1..(Len(digits) \div 2) |->
                16 * HexVal(digits[2 * i - 1]) + HexVal(digits[2 * i])])
    IN  Once1(decoded, SelectSeq(hex, IsHexChar))

(***************************************************************************)
(* Byte arithmetic.                                                        *)
(***************************************************************************)
\* bit k of a byte, k given by its weight w = 2^k
Bit(x, w) == (x \div w) % 2

\* exclusive or of two bytes
XorByte(a, b) ==
      ((Bit(a, 1) + Bit(b, 1)) % 2)
    + ((Bit(a, 2) + Bit(b, 2)) % 2) * 2
    + ((Bit(a, 4) + Bit(b, 4)) % 2) * 4
    + ((Bit(a, 8) + Bit(b, 8)) % 2) * 8
    + ((Bit(a, 16) + Bit(b, 16)) % 2) * 16
    + ((Bit(a, 32) + Bit(b, 32)) % 2) * 32
    + ((Bit(a, 64) + Bit(b, 64)) % 2) * 64
    + ((Bit(a, 128) + Bit(b, 128)) % 2) * 128

(***************************************************************************)
(* Cipher.  AES itself is library code; it is represented by a keyed       *)
(* permutation of 16-byte blocks with a separately written inverse, so     *)
(* that CBC chaining, padding, the IV and the wire format are computed     *)
(* and a wrong key or a damaged ciphertext is visible.                     *)
(***************************************************************************)
\* CryptoPP::AES::BLOCKSIZE
BLOCKSIZE == 16
\* SecByteBlock key(16)
KEYSIZE == 16
\* CryptoPP::SHA256::DIGESTSIZE
DIGESTSIZE == 32

\* SHA256().CalculateDigest: a digest that depends on every byte and on
\* its position
CalculateDigest(msg) ==
    LET acc[j \in 0..Len(msg)] ==
            IF j = 0 THEN Len(msg) ELSE (31 * acc[j - 1] + msg[j]) % 65521
        digest(h) ==
            Bytes([i \in 1..DIGESTSIZE |-> ((h \div i) + 7 * i * h + i) % 256])
    IN  Once1(digest, acc[Len(msg)])

deriveKey(passphrase) == SubSeq(CalculateDigest(passphrase), 1, KEYSIZE)

\* "passphrase_ta_node_v1"
KEY_TA_NODE ==
    deriveKey(<<112, 97, 115, 115, 112, 104, 114, 97, 115, 101, 95,
                116, 97, 95, 110, 111, 100, 101, 95, 118, 49>>)

\* "passphrase_node_mw_v1"
KEY_NODE_MW ==
    deriveKey(<<112, 97, 115, 115, 112, 104, 114, 97, 115, 101, 95,
                110, 111, 100, 101, 95, 109, 119, 95, 118, 49>>)

\* "passphrase_ta_mw_v1"
KEY_TA_MW ==
    deriveKey(<<112, 97, 115, 115, 112, 104, 114, 97, 115, 101, 95,
                116, 97, 95, 109, 119, 95, 118, 49>>)

SubByte(x) == (5 * x + 99) % 256
InvSubByte(y) == (205 * (y + 157)) % 256

\* one block under the key: rotate by one byte, add the key, substitute
EncryptBlock(key, block) ==
    LET enc(k, b) ==
            Bytes([i \in 1..BLOCKSIZE |->
                SubByte((b[(i % BLOCKSIZE) + 1] + k[i]) % 256)])
    IN  Once2(enc, key, block)

\* the inverse of EncryptBlock under the same key
DecryptBlock(key, block) ==
    LET dec(k, b) ==
            Bytes([j \in 1..BLOCKSIZE |->
                LET i == ((j + BLOCKSIZE - 2) % BLOCKSIZE) + 1
                IN  (InvSubByte(b[i]) + 256 - k[i]) % 256])
    IN  Once2(dec, key, block)

XorBlock(a, b) ==
    LET xor(x, y) == Bytes([i \in 1..BLOCKSIZE |-> XorByte(x[i], y[i])])
    IN  Once2(xor, a, b)

\* faulty variant: no padding block after a plaintext of whole blocks
PadPKCS_WholeBlocks(plain) ==
    IF Len(plain) % BLOCKSIZE = 0 THEN plain
    ELSE plain \o FillString(BLOCKSIZE - (Len(plain) % BLOCKSIZE),
                             BLOCKSIZE - (Len(plain) % BLOCKSIZE))

\* PKCS padding of StreamTransformationFilter: 1..BLOCKSIZE bytes, each
\* holding the pad length
PadPKCS(plain) ==
    LET padded(t) ==
            LET p == BLOCKSIZE - (Len(t) % BLOCKSIZE)
            IN  t \o Bytes([i \in 1..p |-> p])
    IN  Once1(padded, plain)

RECURSIVE CBC_Encrypt(_, _, _)
CBC_Encrypt(key, prev, data) ==
    LET chain(k, d, c) ==
            c \o CBC_Encrypt(k, c, SubSeq(d, BLOCKSIZE + 1, Len(d)))
        block(k, p, d) ==
            IF Len(d) = 0 THEN <<>>
            ELSE Once3(chain, k, d,
                       EncryptBlock(k, XorBlock(SubSeq(d, 1, BLOCKSIZE), p)))
    IN  Once3(block, key, prev, data)

RECURSIVE CBC_Decrypt(_, _, _)
CBC_Decrypt(key, prev, data) ==
    LET chain(k, p, d, c) ==
            XorBlock(DecryptBlock(k, c), p)
                \o CBC_Decrypt(k, c, SubSeq(d, BLOCKSIZE + 1, Len(d)))
        block(k, p, d) ==
            IF Len(d) = 0 THEN <<>>
            ELSE LET rest(c) == chain(k, p, d, c)
                 IN  Once1(rest, SubSeq(d, 1, BLOCKSIZE))
    IN  Once3(block, key, prev, data)

\* aesEncryptHex with the IV the random pool produced
aesEncryptHex(key, plain, iv) ==
    LET wire(v) ==
            LET cipher == CBC_Encrypt(key, v, PadPKCS(plain))
                ivhex == toHex(v)
                chex == toHex(cipher)
            IN  ivhex \o <<58>> \o chex
    IN  Once1(wire, iv)

\* aesDecryptHex: [ok |-> TRUE, text |-> recovered], or ok = FALSE when
\* the call throws ("Bad ciphertext format", or the filter's
\* InvalidCiphertext for a length that is no positive multiple of the
\* block size or for bad padding); ub = TRUE when the decoded IV is
\* shorter than a block, which SetKeyWithIV reads beyond its end
aesDecryptHex(key, combined) ==
    LET unpad(padded) ==
            LET p == padded[Len(padded)]
            IN  IF /\ p \in 1..BLOCKSIZE
                   /\ \A k \in (Len(padded) - p + 1)..Len(padded) :
                         padded[k] = p
                THEN [ok |-> TRUE, ub |-> FALSE,
                      text |-> SubSeq(padded, 1, Len(padded) - p)]
                ELSE [ok |-> FALSE, ub |-> FALSE, text |-> <<>>]
        decrypt(iv, cipher) ==
            IF Len(iv) < BLOCKSIZE
            THEN [ok |-> FALSE, ub |-> TRUE, text |-> <<>>]
            ELSE IF Len(cipher) = 0 \/ Len(cipher) % BLOCKSIZE # 0
            THEN [ok |-> FALSE, ub |-> FALSE, text |-> <<>>]
            ELSE Once1(unpad,
                       CBC_Decrypt(key, SubSeq(iv, 1, BLOCKSIZE), cipher))
        split(c) ==
            LET pos == Find(c, <<58>>)
            IN  IF pos = npos THEN [ok |-> FALSE, ub |-> FALSE, text |-> <<>>]
                ELSE LET ivhex == Substr(c, 0, pos)
                         chex == SubstrFrom(c, pos + 1)
                     IN  Once2(decrypt, fromHex(ivhex), fromHex(chex))
    IN  Once1(split, combined)

(***************************************************************************)
(* Random bytes, tokens, the Trusted Authority.                            *)
(***************************************************************************)
\* the r-th outcome of AutoSeededRandomPool::GenerateBlock for n bytes
GenerateBlock(n, r) ==
    Bytes([i \in 1..n |-> ((r - 1) * (37 * i + 134)) % 256])

TokenOutcomes == 1..NumTokens
IVOutcomes == 1..NumIVs

\* genTokenHex(bytes)
genTokenHex(bytes, r) == toHex(GenerateBlock(bytes, r))

\* "node-"
NODE_ID_BASE == <<110, 111, 100, 101, 45>>
\* "NODE_ID:"
STR_NODE_ID == <<78, 79, 68, 69, 95, 73, 68, 58>>
\* ";TOKEN:"
STR_SEMI_TOKEN == <<59, 84, 79, 75, 69, 78, 58>>
\* "TOKEN:"
STR_TOKEN == <<84, 79, 75, 69, 78, 58>>
\* "MW_EXPECTS_NODE:"
STR_MW_EXPECTS == <<77, 87, 95, 69, 88, 80, 69, 67, 84, 83, 95,
                    78, 79, 68, 69, 58>>

\* "HEADER["
STR_HEADER == <<72, 69, 65, 68, 69, 82, 91>>
\* "]|BODY["
STR_BODY == <<93, 124, 66, 79, 68, 89, 91>>
\* "]"
STR_RBRACKET == <<93>>

\* bytes of the token the Trusted Authority issues: genTokenHex(16)
TA_TOKEN_BYTES == 16
\* bytes of the replacement token of the tamper step: genTokenHex(8)
TAMPER_TOKEN_BYTES == 8

\* TA_issue_tokens_for_node; rTok, rIvNode, rIvMw are the outcomes of the
\* three random draws
TA_issue_tokens_for_node(node_id, rTok, rIvNode, rIvMw) ==
    LET issue(token) ==
            LET payload_for_node ==
                    STR_NODE_ID \o node_id \o STR_SEMI_TOKEN \o token
                payload_for_mw ==
                    STR_MW_EXPECTS \o node_id \o STR_SEMI_TOKEN \o token
            IN  [token_plain |-> token,
                 enc_for_node |->
                     aesEncryptHex(KEY_TA_NODE, payload_for_node,
                                   GenerateBlock(BLOCKSIZE, rIvNode)),
                 enc_for_mw |->
                     aesEncryptHex(KEY_TA_MW, payload_for_mw,
                                   GenerateBlock(BLOCKSIZE, rIvMw))]
    IN  Once1(issue, genTokenHex(TA_TOKEN_BYTES, rTok))

(***************************************************************************)
(* Configuration: parse_args applied to the command line.                  *)
(***************************************************************************)
\* --nodes arguments explored
NodeArgs == 1..MaxNodes
\* --workers arguments explored
WorkerArgs == {0, 1, 2}

\* --node-jitter 0 --net-ta-node 1 1 --net-node-mw 2 2 --db-delay 3 4, as
\* <<jitter, ta_node_min, ta_node_max, node_mw_min, node_mw_max, db_min,
\* db_max>>
ValidDelays == <<0, 1, 1, 2, 2, 3, 4>>

\* the same with one range given as MAX MIN
InvertedDelays ==
    {<<0, 2, 1, 2, 2, 3, 4>>, <<0, 1, 1, 5, 2, 3, 4>>, <<0, 1, 1, 2, 2, 4, 3>>}

\* runs of up to two workers; percents is <<--tamper-percent,
\* --fail-percent>>
ConcurrentArgs ==
    [nodes : NodeArgs, workers : WorkerArgs,
     percents : {<<0, 0>>, <<0, 100>>, <<0, 50>>}, payload_bytes : {3},
     delays : {ValidDelays}]

\* runs of one worker with tampering
TamperArgs ==
    [nodes : NodeArgs, workers : {1},
     percents : {<<100, 0>>, <<250, -5>>, <<50, 50>>}, payload_bytes : {3},
     delays : {ValidDelays}]

\* runs with other --payload-bytes
PayloadArgs ==
    [nodes : {1}, workers : {1}, percents : {<<0, 0>>},
     payload_bytes : {0, -1}, delays : {ValidDelays}]

\* the arguments of one run
ArgRecords == ConcurrentArgs \cup TamperArgs \cup PayloadArgs

\* runs with --nodes 0 --workers 0, which parse_args replaces by its
\* defaults
DefaultArgs ==
    [nodes : {0}, workers : {0}, percents : {<<0, 100>>}, payload_bytes : {3},
     delays : {ValidDelays}]

\* runs of one worker with a delay range whose MIN is above its MAX
RangeArgs ==
    [nodes : {1}, workers : {1}, percents : {<<0, 0>>}, payload_bytes : {3},
     delays : InvertedDelays]

\* the values parse_args leaves in cfg for the arguments a
parse_args(a) ==
    [nodes |-> IF a.nodes <= 0 THEN 1000 ELSE a.nodes,
     workers |-> IF a.workers <= 0 THEN 1 ELSE a.workers,
     tamper_percent |->
        IF a.percents[1] < 0 THEN 0
        ELSE IF a.percents[1] > 100 THEN 100 ELSE a.percents[1],
     fail_percent |->
        IF a.percents[2] < 0 THEN 0
        ELSE IF a.percents[2] > 100 THEN 100 ELSE a.percents[2],
     payload_bytes |-> a.payload_bytes,
     node_start_jitter_ms |-> a.delays[1],
     net_delay_ta_node_min |-> a.delays[2],
     net_delay_ta_node_max |-> a.delays[3],
     net_delay_node_mw_min |-> a.delays[4],
     net_delay_node_mw_max |-> a.delays[5],
     db_delay_min |-> a.delays[6],
     db_delay_max |-> a.delays[7]]

Min(a, b) == IF a <= b THEN a ELSE b

\* faulty variant: as many workers as configured, whatever the node count
PoolSize_Configured(c) == c.workers

\* int workers = std::min(cfg.workers, cfg.nodes)
PoolSize(c) == Min(c.workers, c.nodes)

(***************************************************************************)
(* State.                                                                  *)
(***************************************************************************)
\* worker threads that can exist
Threads == 0..(MaxNodes - 1)

\* value of a std::mutex nobody holds
Unlocked == -1
\* value of rngObj when no loop-local rng object is alive
NoRng == -1

VARIABLES
    cfg,              \* the Config after parse_args
    counter,          \* std::atomic<int> counter
    results,          \* std::vector<NodeMetrics> results
    res_mutex,        \* holder of res_mutex, or Unlocked
    aborted,          \* an exception left a thread: std::terminate
    mainPc,           \* position of main
    mainI,            \* loop index of main (spawn, join, aggregate)
    rngObj,           \* the spawn iteration whose rng object is alive
    totals,           \* main's std::vector<long long> totals
    success_cnt,      \* main's int success_cnt
    drop_cnt,         \* main's int drop_cnt
    summary,          \* the statistics handed to write_summary_txt
    pc,               \* position of each worker
    idx,              \* worker local: int idx
    m,                \* worker local: NodeMetrics m
    slept,            \* worker local: milliseconds since t_start
    issued,           \* worker local: IssuedTokens issued
    token_extracted,  \* worker local
    full_request,     \* worker local
    encrypted_for_mw, \* worker local
    ta_token,         \* worker local
    node_token,       \* worker local
    arg,              \* arguments of a function called on its own
    ret               \* what that call returned, or NoCall before it

mainVars == <<mainPc, mainI, rngObj, totals, success_cnt, drop_cnt, summary>>
sharedVars == <<counter, results, res_mutex, aborted>>
protoVars == <<issued, token_extracted, full_request, encrypted_for_mw,
               ta_token, node_token>>

workerVars == <<pc, idx, m, slept, protoVars>>
callVars == <<arg, ret>>
vars == <<cfg, sharedVars, mainVars, workerVars, callVars>>

\* value of arg and ret when no function is called on its own
NoCall == [called |-> FALSE]

\* NodeMetrics m{}
NewMetrics == [node_index |-> 0, total_us |-> 0, success |-> FALSE,
               dropped |-> FALSE]

\* IssuedTokens before TA_issue_tokens_for_node returned
NoTokens == [token_plain |-> <<>>, enc_for_node |-> <<>>, enc_for_mw |-> <<>>]

NoSummary == [written |-> FALSE]

\* the program's variables when main has parsed one of the command lines
\* of Args
InitProgram(Args) ==
    /\ \E a \in Args : cfg = parse_args(a)
    /\ counter = 0
    /\ results = <<>>
    /\ res_mutex = Unlocked
    /\ aborted = FALSE
    /\ mainPc = "spawn_rng"
    /\ mainI = 0
    /\ rngObj = NoRng
    /\ totals = <<>>
    /\ success_cnt = 0
    /\ drop_cnt = 0
    /\ summary = NoSummary
    /\ pc = [w \in Threads |-> "unstarted"]
    /\ idx = [w \in Threads |-> 0]
    /\ m = [w \in Threads |-> NewMetrics]
    /\ slept = [w \in Threads |-> 0]
    /\ issued = [w \in Threads |-> NoTokens]
    /\ token_extracted = [w \in Threads |-> <<>>]
    /\ full_request = [w \in Threads |-> <<>>]
    /\ encrypted_for_mw = [w \in Threads |-> <<>>]
    /\ ta_token = [w \in Threads |-> <<>>]
    /\ node_token = [w \in Threads |-> <<>>]

\* the state when main has parsed one of the command lines of Args
InitWith(Args) ==
    /\ InitProgram(Args)
    /\ arg = NoCall
    /\ ret = NoCall

Init == InitWith(ArgRecords)

\* the runs of Init and the runs with defaulted node and worker counts
InitDefaults == InitWith(ArgRecords \cup DefaultArgs)

\* the runs of Init and the runs with a delay range given as MAX MIN
InitRanges == InitWith(ArgRecords \cup RangeArgs)

(***************************************************************************)
(* Draws from the worker's random source.                                  *)
(***************************************************************************)
\* what a distribution constructed with a > b can return: the library
\* requires a <= b, and without its assertions the draw is rng() + a over
\* the whole range of int (a negative value, zero, a long delay)
UndefinedDraws == {-7, 0, 1000}

\* std::uniform_int_distribution<int>(a, b)(rng)
UniformInt(a, b) == IF a <= b THEN a..b ELSE UndefinedDraws

\* milliseconds that sleep_for(milliseconds(d)) takes: none for d <= 0
SleepFor(d) == IF d > 0 THEN d ELSE 0

\* 100 * std::uniform_real_distribution<double>(0.0, 1.0)(rng): the
\* smallest value, a middle value, and a value just below 100
UnifDraws == {0, 50, 99}

\* largest value of int
INT_MAX == 2147483647
\* smallest value of int
INT_MIN == -INT_MAX - 1

\* faulty variant: a counter update that is lost: the increment never reaches the counter
fetch_add_Lost(c) == c

\* the value counter.fetch_add(1) leaves in the counter (the value it
\* returns is the old one)
fetch_add(c) == IF c = INT_MAX THEN INT_MIN ELSE c + 1

(***************************************************************************)
(* main: spawn, join.                                                      *)
(***************************************************************************)
\* for (int i=0;i<workers;++i) { std::mt19937 rng(rd() ^ (i * 7919));
SpawnRng ==
    /\ ~aborted
    /\ mainPc = "spawn_rng"
    /\ mainI < PoolSize(cfg)
    /\ rngObj' = mainI
    /\ mainPc' = "spawn_thread"
    /\ UNCHANGED <<callVars, cfg, sharedVars, workerVars, mainI, totals, success_cnt,
                   drop_cnt, summary>>

\* pool.emplace_back(worker_func, ..., std::ref(rng)): the thread starts
\* and holds a reference to the rng of this iteration
SpawnThread ==
    /\ ~aborted
    /\ mainPc = "spawn_thread"
    /\ pc' = [pc EXCEPT ![mainI] = "claim"]
    /\ mainPc' = "spawn_next"
    /\ UNCHANGED <<callVars, cfg, sharedVars, idx, m, slept, protoVars, mainI, rngObj,
                   totals, success_cnt, drop_cnt, summary>>

\* the closing brace of the loop body: rng is destroyed; ++i
SpawnNext ==
    /\ ~aborted
    /\ mainPc = "spawn_next"
    /\ rngObj' = NoRng
    /\ IF mainI + 1 < PoolSize(cfg)
       THEN mainI' = mainI + 1 /\ mainPc' = "spawn_rng"
       ELSE mainI' = 0 /\ mainPc' = "join"
    /\ UNCHANGED <<callVars, cfg, sharedVars, workerVars, totals, success_cnt,
                   drop_cnt, summary>>

\* faulty variant: a join that returns at once
Joined_NoWait(t) == TRUE

\* t.join() returns once thread t has left worker_func
Joined(t) == pc[t] = "exited"

\* for (auto &t : pool) if (t.joinable()) t.join();
Join ==
    /\ ~aborted
    /\ mainPc = "join"
    /\ Joined(mainI)
    /\ IF mainI + 1 < PoolSize(cfg)
       THEN mainI' = mainI + 1 /\ mainPc' = "join"
       ELSE mainI' = 0 /\ mainPc' = "aggregate"
    /\ UNCHANGED <<callVars, cfg, sharedVars, workerVars, rngObj, totals, success_cnt,
                   drop_cnt, summary>>

(***************************************************************************)
(* worker_func.                                                            *)
(***************************************************************************)
\* the locals of the loop body as they are when an iteration begins
ResetProto(w) ==
    /\ issued' = [issued EXCEPT ![w] = NoTokens]
    /\ token_extracted' = [token_extracted EXCEPT ![w] = <<>>]
    /\ full_request' = [full_request EXCEPT ![w] = <<>>]
    /\ encrypted_for_mw' = [encrypted_for_mw EXCEPT ![w] = <<>>]
    /\ ta_token' = [ta_token EXCEPT ![w] = <<>>]
    /\ node_token' = [node_token EXCEPT ![w] = <<>>]

\* faulty variant: the exception is caught and the node goes on to be
\* recorded with success = false
Throw_Swallowed(w) ==
    /\ aborted' = aborted
    /\ pc' = [pc EXCEPT ![w] = "db_delay"]

\* an exception leaves worker_func: std::terminate ends the process
Throw(w) ==
    /\ aborted' = TRUE
    /\ pc' = [pc EXCEPT ![w] = "terminated"]

\* faulty variant: if (idx > cfg.nodes) break;
PastEnd_OffByOne(i, nodes) == i > nodes

\* if (idx >= cfg.nodes) break;
PastEnd(i, nodes) == i >= nodes

\* int idx = counter.fetch_add(1); if (idx >= cfg.nodes) break;
\* NodeMetrics m{}; m.node_index = idx; t_start = clk::now();
Claim(w) ==
    /\ ~aborted
    /\ pc[w] = "claim"
    /\ idx' = [idx EXCEPT ![w] = counter]
    /\ counter' = fetch_add(counter)
    /\ IF PastEnd(counter, cfg.nodes)
       THEN /\ pc' = [pc EXCEPT ![w] = "exited"]
            /\ UNCHANGED <<m, slept>>
       ELSE /\ pc' = [pc EXCEPT ![w] = "jitter"]
            /\ m' = [m EXCEPT ![w] = [NewMetrics EXCEPT !.node_index = counter]]
            /\ slept' = [slept EXCEPT ![w] = 0]
    /\ UNCHANGED <<callVars, cfg, results, res_mutex, aborted, mainVars, protoVars>>

\* sleep_for(milliseconds(jitter(rng)))
StartJitter(w) ==
    /\ ~aborted
    /\ pc[w] = "jitter"
    /\ \E d \in UniformInt(0, cfg.node_start_jitter_ms) :
          slept' = [slept EXCEPT ![w] = @ + SleepFor(d)]
    /\ pc' = [pc EXCEPT ![w] = "net_ta_node"]
    /\ UNCHANGED <<callVars, cfg, sharedVars, mainVars, idx, m, protoVars>>

\* sleep_for(milliseconds(net_ta_node(rng)))
NetTaNode(w) ==
    /\ ~aborted
    /\ pc[w] = "net_ta_node"
    /\ \E d \in UniformInt(cfg.net_delay_ta_node_min, cfg.net_delay_ta_node_max) :
          slept' = [slept EXCEPT ![w] = @ + SleepFor(d)]
    /\ pc' = [pc EXCEPT ![w] = "drop_check"]
    /\ UNCHANGED <<callVars, cfg, sharedVars, mainVars, idx, m, protoVars>>

\* faulty variant: a drop test that misses the largest draws
IsBelow_Short(u, percent) == u < percent - 1

\* if (fail_unif(rng) < (cfg.fail_percent / 100.0)) { m.dropped = true;
\* m.total_us = ...; } : u is 100 times the draw
IsBelow(u, percent) == u < percent

DropCheck(w) ==
    /\ ~aborted
    /\ pc[w] = "drop_check"
    /\ \E u \in UnifDraws :
          IF IsBelow(u, cfg.fail_percent)
          THEN /\ m' = [m EXCEPT ![w].dropped = TRUE,
                                 ![w].total_us = 1000 * slept[w]]
               /\ pc' = [pc EXCEPT ![w] = "drop_lock"]
          ELSE /\ m' = m
               /\ pc' = [pc EXCEPT ![w] = "issue"]
    /\ UNCHANGED <<callVars, cfg, sharedVars, mainVars, idx, slept, protoVars>>

\* faulty variant: a lock that is given to whoever asks
CanLock_Always(mutex) == TRUE

\* std::lock_guard's constructor returns once nobody holds the mutex
CanLock(mutex) == mutex = Unlocked

\* std::lock_guard<std::mutex> lg(res_mutex);
DropLock(w) ==
    /\ ~aborted
    /\ pc[w] = "drop_lock"
    /\ CanLock(res_mutex)
    /\ res_mutex' = w
    /\ pc' = [pc EXCEPT ![w] = "drop_push"]
    /\ UNCHANGED <<callVars, cfg, counter, results, aborted, mainVars, idx, m, slept,
                   protoVars>>

\* faulty variant: an append that leaves the vector as it was
push_back_Lost(v, x) == v

\* v.push_back(x)
push_back(v, x) == Append(v, x)

\* results.push_back(std::move(m));
DropPush(w) ==
    /\ ~aborted
    /\ pc[w] = "drop_push"
    /\ results' = push_back(results, m[w])
    /\ pc' = [pc EXCEPT ![w] = "drop_unlock"]
    /\ UNCHANGED <<callVars, cfg, counter, res_mutex, aborted, mainVars, idx, m, slept,
                   protoVars>>

\* continue; (lg is destroyed)
DropUnlock(w) ==
    /\ ~aborted
    /\ pc[w] = "drop_unlock"
    /\ res_mutex' = Unlocked
    /\ pc' = [pc EXCEPT ![w] = "claim"]
    /\ UNCHANGED <<callVars, cfg, counter, results, aborted, mainVars, idx, m, slept,
                   protoVars>>

\* the text after the first "TOKEN:" of a payload, or the empty string
TokenOf(payload) ==
    LET after(t) ==
            LET p == Find(t, STR_TOKEN)
            IN  IF p # npos THEN SubstrFrom(t, p + 6) ELSE <<>>
    IN  Once1(after, payload)

\* IssuedTokens issued = TA_issue_tokens_for_node(...);
\* decrypted_payload = aesDecryptHex(KEY_TA_NODE, issued.enc_for_node);
\* token_extracted = ...
IssueAndDecrypt(w) ==
    /\ ~aborted
    /\ pc[w] = "issue"
    /\ \E rTok \in TokenOutcomes, rIvNode \in IVOutcomes, rIvMw \in IVOutcomes :
          \E tokens \in {TA_issue_tokens_for_node(
                              NODE_ID_BASE \o to_string(idx[w]),
                              rTok, rIvNode, rIvMw)} :
          \E dec \in {aesDecryptHex(KEY_TA_NODE, tokens.enc_for_node)} :
              /\ issued' = [issued EXCEPT ![w] = tokens]
              /\ IF dec.ok
                 THEN /\ token_extracted' =
                            [token_extracted EXCEPT ![w] = TokenOf(dec.text)]
                      /\ pc' = [pc EXCEPT ![w] = "tamper"]
                      /\ aborted' = aborted
                 ELSE /\ token_extracted' = token_extracted
                      /\ Throw(w)
    /\ UNCHANGED <<callVars, cfg, counter, results, res_mutex, mainVars, idx, m, slept,
                   full_request, encrypted_for_mw, ta_token, node_token>>

\* faulty variant: a replacement token as long as the issued one
TamperToken_SameLength(r) == genTokenHex(TA_TOKEN_BYTES, r)

\* the token the tamper step puts in place of the recovered one
TamperToken(r) == genTokenHex(TAMPER_TOKEN_BYTES, r)

\* if (tamper_unif(rng) < (cfg.tamper_percent / 100.0))
\*     token_extracted = genTokenHex(8);
TamperCheck(w) ==
    /\ ~aborted
    /\ pc[w] = "tamper"
    /\ \E u \in UnifDraws :
          IF IsBelow(u, cfg.tamper_percent)
          THEN \E r \in TokenOutcomes :
                  token_extracted' =
                      [token_extracted EXCEPT ![w] = TamperToken(r)]
          ELSE token_extracted' = token_extracted
    /\ pc' = [pc EXCEPT ![w] = "build"]
    /\ UNCHANGED <<callVars, cfg, sharedVars, mainVars, idx, m, slept, issued,
                   full_request, encrypted_for_mw, ta_token, node_token>>

\* faulty variant: a request whose header names the token "TOKEN=" instead of "TOKEN:"
BuildRequest_BadMarker(i, token, payload) ==
    LET header == STR_NODE_ID \o NODE_ID_BASE \o to_string(i)
                     \o <<59, 84, 79, 75, 69, 78, 61>> \o token
    IN  STR_HEADER \o header \o STR_BODY \o payload \o STR_RBRACKET

\* header and full_request of node i carrying token
BuildRequest(i, token, payload) ==
    LET header == STR_NODE_ID \o NODE_ID_BASE \o to_string(i)
                     \o STR_SEMI_TOKEN \o token
    IN  STR_HEADER \o header \o STR_BODY \o payload \o STR_RBRACKET

\* string payload(cfg.payload_bytes, 'A' + (idx % 26)); header; full_request
Build(w) ==
    /\ ~aborted
    /\ pc[w] = "build"
    /\ IF cfg.payload_bytes < 0
       THEN /\ Throw(w)
            /\ full_request' = full_request
       ELSE /\ full_request' =
                  [full_request EXCEPT ![w] =
                      BuildRequest(idx[w], token_extracted[w],
                                   FillString(cfg.payload_bytes,
                                              65 + (idx[w] % 26)))]
            /\ pc' = [pc EXCEPT ![w] = "net_node_mw"]
            /\ aborted' = aborted
    /\ UNCHANGED <<callVars, cfg, counter, results, res_mutex, mainVars, idx, m, slept,
                   issued, token_extracted, encrypted_for_mw, ta_token,
                   node_token>>

\* sleep_for(milliseconds(net_node_mw(rng)))
NetNodeMw(w) ==
    /\ ~aborted
    /\ pc[w] = "net_node_mw"
    /\ \E d \in UniformInt(cfg.net_delay_node_mw_min, cfg.net_delay_node_mw_max) :
          slept' = [slept EXCEPT ![w] = @ + SleepFor(d)]
    /\ pc' = [pc EXCEPT ![w] = "encrypt_mw"]
    /\ UNCHANGED <<callVars, cfg, sharedVars, mainVars, idx, m, protoVars>>

\* encrypted_for_mw = aesEncryptHex(KEY_NODE_MW, full_request);
EncryptForMw(w) ==
    /\ ~aborted
    /\ pc[w] = "encrypt_mw"
    /\ \E rIv \in IVOutcomes :
          encrypted_for_mw' =
              [encrypted_for_mw EXCEPT ![w] =
                  aesEncryptHex(KEY_NODE_MW, full_request[w],
                                GenerateBlock(BLOCKSIZE, rIv))]
    /\ pc' = [pc EXCEPT ![w] = "mw_validate"]
    /\ UNCHANGED <<callVars, cfg, sharedVars, mainVars, idx, m, slept, issued,
                   token_extracted, full_request, ta_token, node_token>>

\* the header token of a decrypted request: [found, token]; found is
\* FALSE when "HEADER[" or the "]" after it is missing
HeaderToken(node_request_plain) ==
    LET parse(t) ==
            LET hpos == Find(t, STR_HEADER)
                hstart == hpos + Len(STR_HEADER)
                hend == FindFrom(t, STR_RBRACKET, hstart)
            IN  IF hpos = npos \/ hend = npos
                THEN [found |-> FALSE, token |-> <<>>]
                ELSE [found |-> TRUE,
                      token |-> TokenOf(Substr(t, hstart, hend - hstart))]
    IN  Once1(parse, node_request_plain)

\* m.success = (node_token == ta_token)
TokensMatch(node_tok, ta_tok) == node_tok = ta_tok

\* Middleware decrypt & validate
MwValidate(w) ==
    /\ ~aborted
    /\ pc[w] = "mw_validate"
    /\ \E decTa \in {aesDecryptHex(KEY_TA_MW, issued[w].enc_for_mw)} :
       \E decReq \in {aesDecryptHex(KEY_NODE_MW, encrypted_for_mw[w])} :
       \E h \in {HeaderToken(decReq.text)} :
       \E expected \in {TokenOf(decTa.text)} :
           IF decTa.ok /\ decReq.ok
           THEN /\ ta_token' = [ta_token EXCEPT ![w] = expected]
                /\ node_token' = [node_token EXCEPT ![w] = h.token]
                /\ m' = [m EXCEPT ![w].success =
                            IF h.found
                            THEN TokensMatch(h.token, expected)
                            ELSE @]
                /\ pc' = [pc EXCEPT ![w] = "db_delay"]
                /\ aborted' = aborted
           ELSE /\ Throw(w)
                /\ UNCHANGED <<ta_token, node_token, m>>
    /\ UNCHANGED <<callVars, cfg, counter, results, res_mutex, mainVars, idx, slept,
                   issued, token_extracted, full_request, encrypted_for_mw>>

\* sleep_for(milliseconds(db_delay(rng)))
DbDelay(w) ==
    /\ ~aborted
    /\ pc[w] = "db_delay"
    /\ \E d \in UniformInt(cfg.db_delay_min, cfg.db_delay_max) :
          slept' = [slept EXCEPT ![w] = @ + SleepFor(d)]
    /\ pc' = [pc EXCEPT ![w] = "record_lock"]
    /\ UNCHANGED <<callVars, cfg, sharedVars, mainVars, idx, m, protoVars>>

\* m.total_us = ...; std::lock_guard<std::mutex> lg(res_mutex);
RecordLock(w) ==
    /\ ~aborted
    /\ pc[w] = "record_lock"
    /\ CanLock(res_mutex)
    /\ res_mutex' = w
    /\ m' = [m EXCEPT ![w].total_us = 1000 * slept[w]]
    /\ pc' = [pc EXCEPT ![w] = "record_push"]
    /\ UNCHANGED <<callVars, cfg, counter, results, aborted, mainVars, idx, slept,
                   protoVars>>

\* results.push_back(std::move(m));
RecordPush(w) ==
    /\ ~aborted
    /\ pc[w] = "record_push"
    /\ results' = push_back(results, m[w])
    /\ pc' = [pc EXCEPT ![w] = "record_unlock"]
    /\ UNCHANGED <<callVars, cfg, counter, res_mutex, aborted, mainVars, idx, m, slept,
                   protoVars>>

\* the end of the loop body: lg and the locals are destroyed
RecordUnlock(w) ==
    /\ ~aborted
    /\ pc[w] = "record_unlock"
    /\ res_mutex' = Unlocked
    /\ pc' = [pc EXCEPT ![w] = "claim"]
    /\ ResetProto(w)
    /\ UNCHANGED <<callVars, cfg, counter, results, aborted, mainVars, idx, m, slept>>

(***************************************************************************)
(* main: aggregation and summary.                                          *)
(***************************************************************************)
RECURSIVE accumulate(_)
\* std::accumulate(v.begin(), v.end(), 0LL)
accumulate(v) == IF v = <<>> THEN 0 ELSE Head(v) + accumulate(Tail(v))

\* faulty variant: the first element where the smallest is meant
min_element_Head(v) == Head(v)

\* *std::min_element(v.begin(), v.end()), for a non-empty v
min_element(v) == CHOOSE x \in {v[k] : k \in 1..Len(v)} :
                      \A k \in 1..Len(v) : x <= v[k]

\* *std::max_element(v.begin(), v.end()), for a non-empty v
max_element(v) == CHOOSE x \in {v[k] : k \in 1..Len(v)} :
                      \A k \in 1..Len(v) : x >= v[k]

\* faulty variant: the median read from the list as it was passed
median_of_vec_Unsorted(v) ==
    IF v = <<>> THEN 0
    ELSE LET n == Len(v)
         IN  IF n % 2 = 1 THEN v[(n \div 2) + 1]
             ELSE (v[n \div 2] + v[(n \div 2) + 1]) \div 2

\* long long median_of_vec(std::vector<long long> v); n/2 of the code is
\* a 0-based position
median_of_vec(v) ==
    IF v = <<>> THEN 0
    ELSE LET sorted == SortSeq(v, LAMBDA a, b : a < b)
             n == Len(sorted)
         IN  IF n % 2 = 1 THEN sorted[(n \div 2) + 1]
             ELSE (sorted[n \div 2] + sorted[(n \div 2) + 1]) \div 2

\* faulty variant: the percentage over the count of completed nodes
Percent_Completed(cnt, nodes) == [num |-> 100 * cnt, den |-> Len(totals)]

\* the double 100.0 * cnt / (double)nodes as the exact fraction num / den
Percent(cnt, nodes) == [num |-> 100 * cnt, den |-> nodes]

\* results.empty() ? 0.0 : (100.0 * cnt / (double)cfg.nodes)
PercentOf(cnt, nodes, res) ==
    IF res = <<>> THEN [num |-> 0, den |-> 1] ELSE Percent(cnt, nodes)

\* if (m.dropped) ++drop_cnt;
AddDrop(cnt, r) == IF r.dropped THEN cnt + 1 ELSE cnt

\* faulty variant: totals.push_back(m.total_us) for every record
AddTotal_Every(tot, r) == Append(tot, r.total_us)

\* else totals.push_back(m.total_us);
AddTotal(tot, r) == IF r.dropped THEN tot ELSE Append(tot, r.total_us)

\* faulty variant: ++success_cnt for every record
AddSuccess_Every(cnt, r) == cnt + 1

\* if (m.success) ++success_cnt;
AddSuccess(cnt, r) == IF r.success THEN cnt + 1 ELSE cnt

\* one iteration of for (const auto &m : results) { ... }
Aggregate ==
    /\ ~aborted
    /\ mainPc = "aggregate"
    /\ mainI < Len(results)
    /\ LET r == results[mainI + 1]
       IN  /\ drop_cnt' = AddDrop(drop_cnt, r)
           /\ totals' = AddTotal(totals, r)
           /\ success_cnt' = AddSuccess(success_cnt, r)
    /\ mainI' = mainI + 1
    /\ UNCHANGED <<callVars, cfg, sharedVars, workerVars, mainPc, rngObj, summary>>

\* avg_total ... drop_pct and write_summary_txt(...)
Summarize ==
    /\ ~aborted
    /\ mainPc = "aggregate"
    /\ mainI >= Len(results)
    /\ summary' =
          [written |-> TRUE,
           nodes |-> cfg.nodes,
           workers |-> PoolSize(cfg),
           avg_total |-> IF totals = <<>> THEN 0
                         ELSE accumulate(totals) \div Len(totals),
           min_total |-> IF totals = <<>> THEN 0 ELSE min_element(totals),
           max_total |-> IF totals = <<>> THEN 0 ELSE max_element(totals),
           med_total |-> median_of_vec(totals),
           success_pct |-> PercentOf(success_cnt, cfg.nodes, results),
           drop_pct |-> PercentOf(drop_cnt, cfg.nodes, results)]
    /\ mainPc' = "done"
    /\ UNCHANGED <<callVars, cfg, sharedVars, workerVars, mainI, rngObj, totals,
                   success_cnt, drop_cnt>>

(***************************************************************************)
(* The program.                                                            *)
(***************************************************************************)
Next ==
    \/ SpawnRng
    \/ SpawnThread
    \/ SpawnNext
    \/ Join
    \/ Aggregate
    \/ Summarize
    \/ \E w \in Threads : Claim(w)
    \/ \E w \in Threads : StartJitter(w)
    \/ \E w \in Threads : NetTaNode(w)
    \/ \E w \in Threads : DropCheck(w)
    \/ \E w \in Threads : DropLock(w)
    \/ \E w \in Threads : DropPush(w)
    \/ \E w \in Threads : DropUnlock(w)
    \/ \E w \in Threads : IssueAndDecrypt(w)
    \/ \E w \in Threads : TamperCheck(w)
    \/ \E w \in Threads : Build(w)
    \/ \E w \in Threads : NetNodeMw(w)
    \/ \E w \in Threads : EncryptForMw(w)
    \/ \E w \in Threads : MwValidate(w)
    \/ \E w \in Threads : DbDelay(w)
    \/ \E w \in Threads : RecordLock(w)
    \/ \E w \in Threads : RecordPush(w)
    \/ \E w \in Threads : RecordUnlock(w)

Spec == Init /\ [][Next]_vars

SpecDefaults == InitDefaults /\ [][Next]_vars

\* the runs of Spec and the runs with a delay range given as MAX MIN
SpecRanges == InitRanges /\ [][Next]_vars

\* the steps of main
MainStep ==
    \/ SpawnRng
    \/ SpawnThread
    \/ SpawnNext
    \/ Join
    \/ Aggregate
    \/ Summarize

\* the steps of worker thread w
WorkerStep(w) ==
    \/ Claim(w)
    \/ StartJitter(w)
    \/ NetTaNode(w)
    \/ DropCheck(w)
    \/ DropLock(w)
    \/ DropPush(w)
    \/ DropUnlock(w)
    \/ IssueAndDecrypt(w)
    \/ TamperCheck(w)
    \/ Build(w)
    \/ NetNodeMw(w)
    \/ EncryptForMw(w)
    \/ MwValidate(w)
    \/ DbDelay(w)
    \/ RecordLock(w)
    \/ RecordPush(w)
    \/ RecordUnlock(w)

\* the scheduler lets every thread that can take a step take one
\* eventually; a sleep_for returns, and a thread waiting for res_mutex
\* gets it once the other threads have run out of nodes
Fairness ==
    /\ WF_vars(MainStep)
    /\ \A w \in Threads : WF_vars(WorkerStep(w))

SpecFair == Init /\ [][Next]_vars /\ Fairness

(***************************************************************************)
(* median_of_vec called on its own, on every list of sample times up to    *)
(* MaxLen elements.                                                        *)
(***************************************************************************)
\* elapsed times the lists are made of
SampleTimes == {10, 20, 30, 40}

\* the lists of at most MaxLen sample times
MedianArgs ==
    UNION {[1..n -> SampleTimes] : n \in 0..MaxLen}

\* the rest of the program is idle while a function is called on its own
InitMedian ==
    /\ InitProgram(DefaultArgs)
    /\ arg \in {[called |-> TRUE, v |-> v] : v \in MedianArgs}
    /\ ret = NoCall

\* ret = median_of_vec(v)
CallMedian ==
    /\ arg.called
    /\ ~ret.called
    /\ ret' = [called |-> TRUE, value |-> median_of_vec(arg.v)]
    /\ UNCHANGED <<arg, cfg, sharedVars, mainVars, workerVars>>

NextMedian == CallMedian

SpecMedian == InitMedian /\ [][NextMedian]_vars

(***************************************************************************)
(* aesEncryptHex and aesDecryptHex called on their own: a round trip on    *)
(* plaintexts around the block boundaries, and decryption of wire strings  *)
(* that were damaged on the way.                                           *)
(***************************************************************************)
\* the three keys of the program
CipherKeys == {KEY_TA_NODE, KEY_NODE_MW, KEY_TA_MW}

\* plaintext lengths: empty, inside a block, one short of a block, a whole
\* block, one more, two blocks
PlainLengths == {0, 1, 15, 16, 17, 32}

\* plaintext bytes, among them bytes that look like padding and the
\* separator
PlainBytes == {1, 16, 58, 255}

PlainTexts == {FillString(n, c) : n \in PlainLengths, c \in PlainBytes}

\* outcomes of the IV draw of aesEncryptHex
CallIVs == {GenerateBlock(BLOCKSIZE, r) : r \in 1..3}

RoundTripArgs ==
    {[called |-> TRUE, op |-> "roundtrip", key |-> k, text |-> t, iv |-> v] :
        k \in CipherKeys, t \in PlainTexts, v \in CallIVs}

\* s with the byte c put in front of the byte at the 0-based position pos
InsertAt(s, pos, c) ==
    SubSeq(s, 1, pos) \o <<c>> \o SubSeq(s, pos + 1, Len(s))

\* s with the byte at the 0-based position pos replaced by c
ReplaceAt(s, pos, c) == [s EXCEPT ![pos + 1] = c]

\* s without the byte at the 0-based position pos
RemoveAt(s, pos) == SubSeq(s, 1, pos) \o SubSeq(s, pos + 2, Len(s))

\* 0-based position of the separator in a well-formed wire string
SeparatorPos == 2 * BLOCKSIZE

\* bytes that are not hex digits: 'G', 'z', ' ', '-'
NonHexBytes == {71, 122, 32, 45}

\* a well-formed wire string and the same string damaged in one place
DamagedWires(wire) ==
    {wire, RemoveAt(wire, SeparatorPos), <<>>, <<58>>,
     SubSeq(wire, 1, SeparatorPos + 1)}
        \cup {InsertAt(wire, pos, c) :
                pos \in {0, 5, SeparatorPos + 1, Len(wire)}, c \in NonHexBytes}
        \cup {ReplaceAt(wire, pos, c) :
                pos \in {0, SeparatorPos + 3}, c \in NonHexBytes}
        \cup {ReplaceAt(RemoveAt(wire, SeparatorPos), pos, c) :
                pos \in {0}, c \in NonHexBytes}

\* "hi"
STR_HI == <<104, 105>>

DecryptArgs ==
    {[called |-> TRUE, op |-> "decrypt", key |-> k, text |-> w, iv |-> <<>>] :
        k \in {KEY_TA_NODE, KEY_NODE_MW},
        w \in UNION {DamagedWires(aesEncryptHex(KEY_TA_NODE, t, v)) :
                        t \in {STR_HI, FillString(BLOCKSIZE, 65)},
                        v \in CallIVs}}

InitCipher ==
    /\ InitProgram(DefaultArgs)
    /\ arg \in RoundTripArgs \cup DecryptArgs
    /\ ret = NoCall

\* what a caller of aesDecryptHex sees.  With an IV part of fewer than
\* BLOCKSIZE bytes SetKeyWithIV reads past the end of the decoded string:
\* the call may throw or return, and the text is then not determined
DecryptOutcomes(dec) ==
    IF dec.ub
    THEN {[ok |-> FALSE, text |-> <<>>]}
            \cup {[ok |-> TRUE, text |-> t] : t \in {<<>>, STR_HI}}
    ELSE {[ok |-> dec.ok, text |-> dec.text]}

\* wire = aesEncryptHex(key, plain); ret = aesDecryptHex(key, wire)
CallRoundTrip ==
    /\ arg.called
    /\ arg.op = "roundtrip"
    /\ ~ret.called
    /\ \E wire \in {aesEncryptHex(arg.key, arg.text, arg.iv)} :
       \E out \in DecryptOutcomes(aesDecryptHex(arg.key, wire)) :
          ret' = [called |-> TRUE, wire |-> wire,
                  ok |-> out.ok, text |-> out.text]
    /\ UNCHANGED <<arg, cfg, sharedVars, mainVars, workerVars>>

\* ret = aesDecryptHex(key, wire); ok is FALSE when the call throws
CallDecrypt ==
    /\ arg.called
    /\ arg.op = "decrypt"
    /\ ~ret.called
    /\ \E out \in DecryptOutcomes(aesDecryptHex(arg.key, arg.text)) :
          ret' = [called |-> TRUE, wire |-> arg.text,
                  ok |-> out.ok, text |-> out.text]
    /\ UNCHANGED <<arg, cfg, sharedVars, mainVars, workerVars>>

NextCipher == CallRoundTrip \/ CallDecrypt

SpecCipher == InitCipher /\ [][NextCipher]_vars

(***************************************************************************)
(* The run with corrupted memory: between the encryption for the           *)
(* Middleware and the Middleware's two decrypt calls a stored wire string  *)
(* of a worker loses its separator or its last byte.  The program itself   *)
(* never produces such a string; the corruption is the only way a decrypt  *)
(* step of a run can fail.                                                 *)
(***************************************************************************)
\* a wire string without its ':' (malformed) and without its last cipher
\* byte (cipher length no multiple of the block size)
Corrupted(wire) ==
    {RemoveAt(wire, SeparatorPos), SubSeq(wire, 1, Len(wire) - 2)}

\* hex(IV) ":" hex(whole cipher blocks)
WellFormed(wire) ==
    /\ Len(wire) > SeparatorPos + 1
    /\ wire[SeparatorPos + 1] = 58
    /\ (Len(wire) - SeparatorPos - 1) % (2 * BLOCKSIZE) = 0

\* tokens.enc_for_mw or encrypted_for_mw of worker w is overwritten, once
Corrupt(w) ==
    /\ ~aborted
    /\ pc[w] = "mw_validate"
    /\ WellFormed(issued[w].enc_for_mw)
    /\ WellFormed(encrypted_for_mw[w])
    /\ \/ /\ \E c \in Corrupted(issued[w].enc_for_mw) :
                issued' = [issued EXCEPT ![w].enc_for_mw = c]
          /\ UNCHANGED encrypted_for_mw
       \/ /\ \E c \in Corrupted(encrypted_for_mw[w]) :
                encrypted_for_mw' = [encrypted_for_mw EXCEPT ![w] = c]
          /\ UNCHANGED issued
    /\ UNCHANGED <<callVars, cfg, sharedVars, mainVars, pc, idx, m, slept,
                   token_extracted, full_request, ta_token, node_token>>

NextCorrupt == Next \/ \E w \in Threads : Corrupt(w)

SpecCorrupt == Init /\ [][NextCorrupt]_vars

(***************************************************************************)
(* Vocabulary of the properties.                                           *)
(***************************************************************************)
\* the threads main spawns in this run
Pool == 0..(PoolSize(cfg) - 1)

\* every spawned worker has left worker_func
AllExited == \A w \in Pool : pc[w] = "exited"

\* worker w has been started and has not left worker_func
Running(w) == pc[w] \notin {"unstarted", "exited", "terminated"}

\* worker w holds a claimed index below cfg.nodes
Processing(w) == pc[w] \notin {"unstarted", "claim", "exited"}

\* worker w holds a claimed index whose record it has not appended yet
BeforePush(w) ==
    Processing(w) /\ pc[w] \notin {"drop_unlock", "record_unlock"}

\* worker w has validated the node it is processing
Validated(w) ==
    pc[w] \in {"db_delay", "record_lock", "record_push", "record_unlock"}

\* the positions of results that satisfy P
Where(P(_)) == {k \in 1..Len(results) : P(results[k])}

IsDropped(r) == r.dropped
IsSuccess(r) == r.success
IsCompletedSuccess(r) == ~r.dropped /\ r.success
IsCompletedFailure(r) == ~r.dropped /\ ~r.success

\* main is reading the result list or has read it
Aggregating == mainPc \in {"aggregate", "done"}

(***************************************************************************)
(* C1.  Completeness: while the run is in progress the result list never   *)
(* holds more than cfg.nodes records, and once every spawned worker has    *)
(* exited it holds exactly cfg.nodes records, every node index of          *)
(* 0..cfg.nodes-1 in exactly one of them and no index outside that range.  *)
(***************************************************************************)
C1_Completeness ==
    /\ Len(results) <= cfg.nodes
    /\ AllExited =>
          /\ Len(results) = cfg.nodes
          /\ \A k \in 1..Len(results) :
                results[k].node_index \in 0..(cfg.nodes - 1)
          /\ \A i \in 0..(cfg.nodes - 1) :
                Cardinality({k \in 1..Len(results) :
                                results[k].node_index = i}) = 1

\* two workers have exited and the records were appended out of index order
C1_Witness ==
    /\ AllExited
    /\ PoolSize(cfg) = 2
    /\ Len(results) = 2
    /\ results[1].node_index = 1

(***************************************************************************)
(* C2.  Claim exclusivity: no two workers hold the same node index at the  *)
(* same time, and every index below cfg.nodes the counter has handed out   *)
(* is held by exactly one worker or recorded exactly once.                 *)
(***************************************************************************)
C2_ClaimExclusive ==
    /\ \A w, v \in Threads :
          (w # v /\ Processing(w) /\ Processing(v)) => idx[w] # idx[v]
    /\ \A i \in 0..(cfg.nodes - 1) :
          i < counter =>
             Cardinality({w \in Threads : BeforePush(w) /\ idx[w] = i})
               + Cardinality({k \in 1..Len(results) :
                                 results[k].node_index = i}) = 1

\* two workers are processing their nodes at the same time
C2_Witness ==
    \E w, v \in Threads :
        /\ w # v
        /\ pc[w] = "mw_validate"
        /\ pc[v] = "mw_validate"
        /\ idx[w] = 1
        /\ idx[v] = 0

(***************************************************************************)
(* C3.  Private random sources: as long as a worker runs, the random       *)
(* source it was given is alive and is its own, so that no two workers     *)
(* use the same random-source object.                                      *)
(***************************************************************************)
C3_PrivateLiveRng == \A w \in Threads : Running(w) => rngObj = w

(***************************************************************************)
(* C4.  Partition law: when the run is complete, dropped outcomes plus     *)
(* completed successes plus completed failures make cfg.nodes, and the     *)
(* success count and drop count of the aggregation do not sum to more.     *)
(***************************************************************************)
C4_PartitionLaw ==
    mainPc = "done" =>
        /\ drop_cnt + Cardinality(Where(IsCompletedSuccess))
             + Cardinality(Where(IsCompletedFailure)) = cfg.nodes
        /\ success_cnt + drop_cnt <= cfg.nodes

\* a complete run with a dropped node and a completed one
C4_Witness ==
    /\ mainPc = "done"
    /\ drop_cnt = 1
    /\ Cardinality(Where(IsCompletedFailure)) = 1

(***************************************************************************)
(* C5.  Join barrier: whenever main is aggregating, every spawned worker   *)
(* has exited, and no step appends to the result list from then on.        *)
(***************************************************************************)
C5_JoinBarrier ==
    [][/\ Aggregating' => AllExited'
       /\ Aggregating => results' = results]_vars

\* main has read a record of a run of two workers
C5_Witness ==
    /\ mainPc = "aggregate"
    /\ mainI = 1
    /\ PoolSize(cfg) = 2

(***************************************************************************)
(* C6.  No-tamper baseline: with tamper percent 0 and fail percent 0 the   *)
(* token the Node recovers is the issued one and equals the token the      *)
(* Middleware recovers, every record is completed with success, and a      *)
(* complete run reports success 100 % and dropped 0 % over all nodes.      *)
(***************************************************************************)
C6_NoTamperBaseline ==
    (cfg.tamper_percent = 0 /\ cfg.fail_percent = 0) =>
        /\ \A k \in 1..Len(results) :
              ~results[k].dropped /\ results[k].success
        /\ \A w \in Threads :
              Validated(w) =>
                  /\ node_token[w] = ta_token[w]
                  /\ node_token[w] = issued[w].token_plain
                  /\ m[w].success
        /\ mainPc = "done" =>
              /\ Len(results) = cfg.nodes
              /\ summary.success_pct.num = 100 * summary.success_pct.den
              /\ summary.drop_pct.num = 0

\* a complete run of two workers without tampering and without drops
C6_Witness ==
    /\ mainPc = "done"
    /\ cfg.tamper_percent = 0
    /\ cfg.fail_percent = 0
    /\ PoolSize(cfg) = 2
    /\ Len(results) = 2

(***************************************************************************)
(* C7.  Tamper effect: with tamper percent 100 and fail percent 0 the      *)
(* token in every request differs from the issued one, the submitted       *)
(* token differs from the expected one, every record is completed with     *)
(* success = false, and a complete run reports success 0 %.                *)
(***************************************************************************)
C7_TamperEffect ==
    (cfg.tamper_percent = 100 /\ cfg.fail_percent = 0) =>
        /\ \A k \in 1..Len(results) :
              ~results[k].dropped /\ ~results[k].success
        /\ \A w \in Threads :
              /\ pc[w] = "build" => token_extracted[w] # issued[w].token_plain
              /\ Validated(w) =>
                    /\ node_token[w] # ta_token[w]
                    /\ ~m[w].success
        /\ mainPc = "done" =>
              /\ Len(results) = cfg.nodes
              /\ summary.success_pct.num = 0

\* a complete run in which every token was replaced
C7_Witness ==
    /\ mainPc = "done"
    /\ cfg.tamper_percent = 100
    /\ cfg.fail_percent = 0
    /\ Len(results) = 2

(***************************************************************************)
(* C8.  All-drop scenario: with fail percent 100 every record is dropped,  *)
(* and a complete run has cfg.nodes records and reports success 0 %,       *)
(* dropped 100 %, and average, minimum, maximum and median 0.              *)
(***************************************************************************)
C8_AllDrop ==
    cfg.fail_percent = 100 =>
        /\ \A k \in 1..Len(results) : results[k].dropped
        /\ mainPc = "done" =>
              /\ Len(results) = cfg.nodes
              /\ summary.success_pct.num = 0
              /\ summary.drop_pct.num = 100 * summary.drop_pct.den
              /\ summary.avg_total = 0
              /\ summary.min_total = 0
              /\ summary.max_total = 0
              /\ summary.med_total = 0

\* a complete run of two workers that dropped every node
C8_Witness ==
    /\ mainPc = "done"
    /\ cfg.fail_percent = 100
    /\ PoolSize(cfg) = 2
    /\ drop_cnt = 2

(***************************************************************************)
(* C9.  Drop exclusivity: every dropped outcome has success = false, and   *)
(* the times the statistics are computed from are exactly the elapsed      *)
(* times of the records read so far that are not dropped.                  *)
(***************************************************************************)
C9_DropExclusive ==
    /\ \A k \in 1..Len(results) : results[k].dropped => ~results[k].success
    /\ \A w \in Threads : m[w].dropped => ~m[w].success
    /\ Aggregating =>
          LET read == SubSeq(results, 1,
                             IF mainPc = "done" THEN Len(results) ELSE mainI)
              kept == SelectSeq(read, LAMBDA r : ~r.dropped)
          IN  totals = [k \in 1..Len(kept) |-> kept[k].total_us]

\* the aggregation has read a dropped record and a completed one
C9_Witness ==
    /\ mainPc = "done"
    /\ drop_cnt = 1
    /\ Len(totals) = 1
    /\ results[1].dropped

(***************************************************************************)
(* C10.  Percentage denominators: in a complete run success % is           *)
(* 100 * (records with success) / cfg.nodes and dropped % is               *)
(* 100 * (records with dropped) / cfg.nodes, and the denominator is the    *)
(* configured node count, which is not zero.                               *)
(***************************************************************************)
C10_PercentDenominators ==
    /\ cfg.nodes >= 1
    /\ mainPc = "done" =>
          /\ summary.success_pct =
                [num |-> 100 * Cardinality(Where(IsSuccess)), den |-> cfg.nodes]
          /\ summary.drop_pct =
                [num |-> 100 * Cardinality(Where(IsDropped)), den |-> cfg.nodes]
          /\ summary.success_pct.den # 0
          /\ summary.drop_pct.den # 0

\* a complete run of --nodes 0, defaulted to 1000 nodes, in which no node
\* completed: the denominator is 1000 and the completed count is 0
C10_Witness ==
    /\ mainPc = "done"
    /\ cfg.nodes = 1000
    /\ Len(totals) = 0
    /\ summary.drop_pct = [num |-> 100000, den |-> 1000]
    /\ summary.success_pct = [num |-> 0, den |-> 1000]

(***************************************************************************)
(* C11.  Average, minimum and maximum: in a complete run the reported      *)
(* average is the integer mean, and the reported minimum and maximum are   *)
(* the smallest and the largest, of the elapsed times of exactly the       *)
(* records that are not dropped, successful and failed alike; all three    *)
(* are 0 when every record is dropped.                                     *)
(***************************************************************************)
C11_AvgMinMax ==
    mainPc = "done" =>
        LET kept == {k \in 1..Len(results) : ~results[k].dropped}
            t(k) == results[k].total_us
            sum[S \in SUBSET kept] ==
                IF S = {} THEN 0
                ELSE LET k == CHOOSE j \in S : TRUE
                     IN  t(k) + sum[S \ {k}]
            n == Cardinality(kept)
        IN  IF kept = {}
            THEN /\ summary.avg_total = 0
                 /\ summary.min_total = 0
                 /\ summary.max_total = 0
            ELSE /\ n * summary.avg_total <= sum[kept]
                 /\ sum[kept] < n * (summary.avg_total + 1)
                 /\ \E k \in kept : t(k) = summary.min_total
                 /\ \A k \in kept : summary.min_total <= t(k)
                 /\ \E k \in kept : t(k) = summary.max_total
                 /\ \A k \in kept : t(k) <= summary.max_total

\* a complete run with a successful and a failed node that took different
\* times, the slower one recorded first
C11_Witness ==
    /\ mainPc = "done"
    /\ Len(results) = 2
    /\ ~results[1].dropped /\ ~results[2].dropped
    /\ results[1].success # results[2].success
    /\ results[1].total_us > results[2].total_us
    /\ summary.min_total = results[2].total_us
    /\ summary.max_total = results[1].total_us

(***************************************************************************)
(* C12.  Median: median_of_vec returns 0 for the empty list, the middle    *)
(* element in sorted order for a list of odd length and the integer mean   *)
(* of the two middle elements in sorted order for a list of even length;   *)
(* {10,20,30} gives 20 and {10,20,30,40} gives 25 in whatever order the    *)
(* elements are passed.  The element of rank r is told by counting, so     *)
(* the statement does not depend on the order of the list.                 *)
(***************************************************************************)
C12_Median ==
    ret.called =>
        LET v == arg.v
            n == Len(v)
            below(x) == Cardinality({k \in 1..n : v[k] < x})
            upto(x) == Cardinality({k \in 1..n : v[k] <= x})
            \* the element at 1-based position r of the sorted list
            ranked(r) == CHOOSE x \in {v[k] : k \in 1..n} :
                            below(x) < r /\ r <= upto(x)
            elems == {v[k] : k \in 1..n}
        IN  /\ n = 0 => ret.value = 0
            /\ (n > 0 /\ n % 2 = 1) => ret.value = ranked((n + 1) \div 2)
            /\ (n > 0 /\ n % 2 = 0) =>
                  ret.value = (ranked(n \div 2) + ranked((n \div 2) + 1)) \div 2
            /\ (n = 3 /\ elems = {10, 20, 30}) => ret.value = 20
            /\ (n = 4 /\ elems = {10, 20, 30, 40}) => ret.value = 25

\* the median of the unsorted list 40, 10, 30, 20 has been returned
C12_Witness ==
    /\ ret.called
    /\ arg.v = <<40, 10, 30, 20>>
    /\ ret.value = 25

(***************************************************************************)
(* C13.  Worker count: the configured worker count is at least 1; once     *)
(* spawning has ended exactly W workers have been started, W being the     *)
(* configured worker count capped by the node count, and before that not   *)
(* more than W; no worker is started after spawning has ended; a worker    *)
(* that holds an index below cfg.nodes has not left, a worker that has     *)
(* left claimed an index >= cfg.nodes last, and it claims nothing more.    *)
(***************************************************************************)
C13_WorkerCount ==
    [][LET Started == {w \in Threads : pc[w] # "unstarted"}
           StartedNext == {w \in Threads : pc'[w] # "unstarted"}
           W == IF cfg.workers <= cfg.nodes THEN cfg.workers ELSE cfg.nodes
           SpawnEnded == mainPc \in {"join", "aggregate", "done"}
       IN  /\ cfg.workers >= 1
           /\ W >= 1
           /\ Cardinality(StartedNext) <= W
           /\ SpawnEnded' => Cardinality(StartedNext) = W
           /\ SpawnEnded => StartedNext = Started
           /\ \A w \in Threads :
                 /\ pc'[w] = "exited" => idx'[w] >= cfg.nodes
                 /\ pc'[w] \notin {"unstarted", "claim", "exited"} =>
                        idx'[w] \in 0..(cfg.nodes - 1)
                 /\ pc[w] = "exited" =>
                        pc'[w] = "exited" /\ idx'[w] = idx[w]]_vars

\* a complete run of --workers 2 on one node: one worker was started
C13_Witness ==
    /\ mainPc = "done"
    /\ cfg.workers = 2
    /\ cfg.nodes = 1
    /\ pc[0] = "exited"
    /\ pc[1] = "unstarted"
    /\ summary.workers = 1

(***************************************************************************)
(* C14.  Termination: under fair scheduling every spawned worker           *)
(* eventually exits and main reaches the aggregation, and every index      *)
(* below cfg.nodes that a worker has claimed is eventually recorded        *)
(* (dropped or complete).  The delay ranges of every explored run are      *)
(* finite and no decrypt step of a run fails.                              *)
(***************************************************************************)
C14_Termination ==
    /\ <>(AllExited /\ Aggregating)
    /\ \A i \in 0..(MaxNodes - 1) :
          (i < counter /\ i < cfg.nodes)
              ~> (\E k \in 1..Len(results) : results[k].node_index = i)

\* the same for the runs whose --payload-bytes is not negative
C14_TerminationPayloadNat ==
    (cfg.payload_bytes >= 0) =>
        /\ <>(AllExited /\ Aggregating)
        /\ \A i \in 0..(MaxNodes - 1) :
              (i < counter /\ i < cfg.nodes)
                  ~> (\E k \in 1..Len(results) : results[k].node_index = i)

\* a worker has thrown while it built a request and the process is dead
C14_Witness ==
    /\ aborted
    /\ cfg.payload_bytes < 0
    /\ \E w \in Threads : pc[w] = "terminated" /\ idx[w] = 0
    /\ results = <<>>
    /\ mainPc = "join"

(***************************************************************************)
(* C15.  Round trip: for every key, plaintext and drawn IV, the wire       *)
(* string of aesEncryptHex is the hex of the IV, a ':' and the hex of a    *)
(* whole number of cipher blocks, and aesDecryptHex with the same key      *)
(* returns exactly the plaintext.                                          *)
(***************************************************************************)
C15_RoundTrip ==
    (ret.called /\ arg.op = "roundtrip") =>
        /\ ret.ok
        /\ ret.text = arg.text
        /\ Len(ret.wire) =
              2 * BLOCKSIZE + 1
                  + 2 * BLOCKSIZE * ((Len(arg.text) \div BLOCKSIZE) + 1)
        /\ ret.wire[SeparatorPos + 1] = 58
        /\ \A i \in (1..Len(ret.wire)) \ {SeparatorPos + 1} :
              IsHexChar(ret.wire[i])
        /\ \A i \in 1..BLOCKSIZE :
              16 * HexVal(ret.wire[2 * i - 1]) + HexVal(ret.wire[2 * i])
                  = arg.iv[i]

\* a plaintext of exactly one block, made of bytes that look like padding,
\* came back under a non-zero IV
C15_Witness ==
    /\ ret.called
    /\ arg.op = "roundtrip"
    /\ arg.text = FillString(BLOCKSIZE, 16)
    /\ arg.iv[1] # 0
    /\ ret.ok
    /\ ret.text = arg.text

(***************************************************************************)
(* C16.  Malformed ciphertext: aesDecryptHex throws, and so returns no     *)
(* plaintext, for every wire string without a ':' and for every wire       *)
(* string whose part before the first ':' or whose part after it is not    *)
(* valid hex (a byte that is no hex digit, or an odd number of digits).    *)
(***************************************************************************)
NoSeparator(wire) == \A i \in 1..Len(wire) : wire[i] # 58

NotValidHex(part) ==
    \/ \E i \in 1..Len(part) : ~IsHexChar(part[i])
    \/ Len(part) % 2 = 1

BadHexPart(wire) ==
    \E pos \in 0..(Len(wire) - 1) :
        /\ wire[pos + 1] = 58
        /\ \A i \in 1..pos : wire[i] # 58
        /\ \/ NotValidHex(SubSeq(wire, 1, pos))
           \/ NotValidHex(SubSeq(wire, pos + 2, Len(wire)))

C16_MalformedFails ==
    (/\ ret.called
     /\ arg.op = "decrypt"
     /\ NoSeparator(arg.text) \/ BadHexPart(arg.text)) =>
        /\ ~ret.ok
        /\ ret.text = <<>>

\* the half of it that the code keeps: no ':' in the wire string, no text
C16_NoSeparatorFails ==
    (ret.called /\ arg.op = "decrypt" /\ NoSeparator(arg.text)) =>
        /\ ~ret.ok
        /\ ret.text = <<>>

\* a 'G' in front of a well-formed wire string was skipped by the hex
\* decoder and the plaintext "hi" came out
C16_Witness ==
    /\ ret.called
    /\ arg.op = "decrypt"
    /\ arg.key = KEY_TA_NODE
    /\ Len(arg.text) > 0
    /\ arg.text[1] = 71
    /\ ~NoSeparator(arg.text)
    /\ ret.ok
    /\ ret.text = STR_HI

(***************************************************************************)
(* C17.  Fatal decrypt errors: whenever a decrypt step of a worker (the    *)
(* Node's decrypt of its token message, the Middleware's decrypt of the    *)
(* expected token and of the request) fails, the step ends the process:    *)
(* the node gets no record, not even a failed one, nothing happens after   *)
(* it, and main neither computes nor writes a summary.                     *)
(***************************************************************************)
C17_FatalDecrypt ==
    /\ [][\A w \in Threads :
            /\ (/\ pc[w] = "issue"
                /\ pc'[w] # "issue"
                /\ ~aesDecryptHex(KEY_TA_NODE, issued'[w].enc_for_node).ok)
                  => (aborted' /\ pc'[w] = "terminated")
            /\ (/\ pc[w] = "mw_validate"
                /\ pc'[w] # "mw_validate"
                /\ \/ ~aesDecryptHex(KEY_TA_MW, issued[w].enc_for_mw).ok
                   \/ ~aesDecryptHex(KEY_NODE_MW, encrypted_for_mw[w]).ok)
                  => (aborted' /\ pc'[w] = "terminated")
            /\ (pc'[w] = "terminated" /\ pc[w] # "terminated")
                  => (aborted' /\ results' = results /\ m'[w] = m[w])]_vars
    /\ [][~aborted]_vars
    /\ [](aborted =>
            /\ ~Aggregating
            /\ summary = NoSummary
            /\ \A w \in Threads :
                  pc[w] = "terminated" =>
                      \A k \in 1..Len(results) :
                          results[k].node_index # idx[w])

\* the Middleware could not decrypt a request that had lost its ':'; the
\* process died with one node recorded and main waiting in join
C17_Witness ==
    /\ aborted
    /\ mainPc = "join"
    /\ Len(results) = 1
    /\ \E w \in Threads :
          /\ pc[w] = "terminated"
          /\ idx[w] = 1
          /\ NoSeparator(encrypted_for_mw[w])
          /\ ~aesDecryptHex(KEY_NODE_MW, encrypted_for_mw[w]).ok

(***************************************************************************)
(* C18.  Range validation: a configuration whose TA-Node, Node-MW or DB    *)
(* delay range has min > max starts no worker, so that no worker ever      *)
(* draws a delay from such a range.                                        *)
(***************************************************************************)
RangesValid ==
    /\ cfg.net_delay_ta_node_min <= cfg.net_delay_ta_node_max
    /\ cfg.net_delay_node_mw_min <= cfg.net_delay_node_mw_max
    /\ cfg.db_delay_min <= cfg.db_delay_max

C18_RangeValidation ==
    \A w \in Threads : pc[w] # "unstarted" => RangesValid

\* a worker has slept for a draw from the DB delay range 4..3 and its
\* record is in the result list
C18_Witness ==
    /\ cfg.db_delay_min > cfg.db_delay_max
    /\ mainPc = "done"
    /\ Len(results) = 1
    /\ results[1].total_us = 1000 * (1 + 2 + 1000)

(***************************************************************************)
(* C19.  Per-node step order: every step of a worker is followed by the    *)
(* one step that comes after it in the order jitter, TA-Node delay, drop   *)
(* check, issue and Node decrypt, tamper check, build, Node-MW delay,      *)
(* encrypt, validation, DB delay, record; no step acts twice on a node; a  *)
(* dropped node goes from the drop check straight to its record and a      *)
(* node that is not dropped goes on to the issue step, and from the        *)
(* validation to the DB delay whether the tokens matched or not.           *)
(***************************************************************************)
\* the steps that may follow each step of a worker
StepAfter ==
    [unstarted |-> {"claim"},
     claim |-> {"jitter", "exited"},
     jitter |-> {"net_ta_node"},
     net_ta_node |-> {"drop_check"},
     drop_check |-> {"drop_lock", "issue"},
     drop_lock |-> {"drop_push"},
     drop_push |-> {"drop_unlock"},
     drop_unlock |-> {"claim"},
     issue |-> {"tamper"},
     tamper |-> {"build"},
     build |-> {"net_node_mw"},
     net_node_mw |-> {"encrypt_mw"},
     encrypt_mw |-> {"mw_validate"},
     mw_validate |-> {"db_delay"},
     db_delay |-> {"record_lock"},
     record_lock |-> {"record_push"},
     record_push |-> {"record_unlock"},
     record_unlock |-> {"claim"},
     exited |-> {},
     terminated |-> {}]

\* one step of the run keeps the order for every worker
StepOrder ==
    \A w \in Threads :
        /\ pc'[w] # pc[w] => pc'[w] \in StepAfter[pc[w]]
        /\ pc'[w] = pc[w] =>
              /\ idx'[w] = idx[w]
              /\ m'[w] = m[w]
              /\ slept'[w] = slept[w]
              /\ issued'[w] = issued[w]
              /\ token_extracted'[w] = token_extracted[w]
              /\ full_request'[w] = full_request[w]
              /\ encrypted_for_mw'[w] = encrypted_for_mw[w]
        /\ pc[w] # "claim" => idx'[w] = idx[w]
        /\ pc[w] = "drop_check" /\ pc'[w] # pc[w] =>
              (pc'[w] = "drop_lock" <=> m'[w].dropped)
        /\ m'[w].dropped /\ pc'[w] \notin {"claim", "exited"} =>
              pc'[w] \in {"drop_lock", "drop_push", "drop_unlock"}
        /\ pc[w] = "mw_validate" /\ pc'[w] # pc[w] =>
              /\ pc'[w] = "db_delay"
              /\ m'[w].success \in BOOLEAN
        /\ (pc[w] \in {"drop_push", "record_push"} /\ pc'[w] # pc[w]) =>
              /\ results' = Append(results, m[w])
              /\ m[w].node_index = idx[w]
              /\ m[w].dropped <=> pc[w] = "drop_push"

C19_StepOrder == [][StepOrder]_vars

\* the same for the runs whose --payload-bytes is not negative
C19_StepOrderPayloadNat == [][cfg.payload_bytes >= 0 => StepOrder]_vars

\* a node that was not dropped stopped at the build step and never had
\* its DB delay
C19_Witness ==
    /\ aborted
    /\ \E w \in Threads :
          /\ pc[w] = "terminated"
          /\ ~m[w].dropped
          /\ token_extracted[w] # <<>>
          /\ full_request[w] = <<>>
          /\ slept[w] = 1

(***************************************************************************)
(* C20.  Tamper replacement shape: when the tamper check fires, the token  *)
(* the Node recovered is replaced by a string of hex digits that has the   *)
(* length of the token the Trusted Authority issued.                       *)
(***************************************************************************)
C20_TamperShape ==
    [][\A w \in Threads :
          (/\ pc[w] = "tamper"
           /\ pc'[w] = "build"
           /\ token_extracted'[w] # token_extracted[w]) =>
              /\ \A i \in 1..Len(token_extracted'[w]) :
                    IsHexChar(token_extracted'[w][i])
              /\ Len(token_extracted'[w]) = Len(issued[w].token_plain)]_vars

\* the tamper check has fired: the Node holds 16 hex digits in place of
\* the 32 it was issued
C20_Witness ==
    \E w \in Threads :
        /\ pc[w] = "build"
        /\ cfg.tamper_percent = 100
        /\ Len(issued[w].token_plain) = 32
        /\ Len(token_extracted[w]) = 16
        /\ \A i \in 1..16 : IsHexChar(token_extracted[w][i])

(***************************************************************************)
(* C21.  One node at a time, no retry: a worker comes back to the counter  *)
(* only from an append of the record of the index it holds, and until its  *)
(* next claim that index and the result list's records stay; each claim    *)
(* gives the worker an index that no worker holds and no record names, so  *)
(* no index is processed twice; a token is issued and a request is         *)
(* encrypted for an index at most once, and never for an index that has a  *)
(* record (dropped, failed or successful).                                 *)
(***************************************************************************)
Recorded(i, list) == \E k \in 1..Len(list) : list[k].node_index = i

C21_OneNodeNoRetry ==
    [][/\ \A k \in 1..Len(results) :
             k <= Len(results') /\ results'[k] = results[k]
       /\ \A w \in Threads :
             /\ (pc[w] \notin {"unstarted", "claim"} /\ pc'[w] = "claim") =>
                   /\ pc[w] \in {"drop_unlock", "record_unlock"}
                   /\ Recorded(idx[w], results')
                   /\ idx'[w] = idx[w]
             /\ (pc[w] = "claim" /\ pc'[w] = "claim") => idx'[w] = idx[w]
             /\ (pc[w] = "claim" /\ pc'[w] # "claim") =>
                   /\ idx'[w] = counter
                   /\ counter' = counter + 1
                   /\ ~Recorded(idx'[w], results')
                   /\ \A v \in Threads \ {w} :
                         Processing(v) => idx[v] # idx'[w]
                   /\ \A k \in 1..Len(results) :
                         results[k].node_index < idx'[w]
             /\ (pc[w] \notin {"claim", "unstarted"}) => idx'[w] = idx[w]
             /\ (pc[w] = "issue" /\ pc'[w] # "issue") =>
                   /\ issued[w] = NoTokens
                   /\ ~Recorded(idx[w], results)
             /\ (pc[w] = "encrypt_mw" /\ pc'[w] # "encrypt_mw") =>
                   /\ encrypted_for_mw[w] = <<>>
                   /\ ~Recorded(idx[w], results)]_vars

\* the only worker of the run has recorded node 0 as dropped and is about
\* to have a token issued for node 1
C21_Witness ==
    /\ cfg.workers = 1
    /\ cfg.nodes = 2
    /\ pc[0] = "issue"
    /\ idx[0] = 1
    /\ Len(results) = 1
    /\ results[1].node_index = 0
    /\ results[1].dropped

(***************************************************************************)
(* C22.  Append mutual exclusion: a worker holds res_mutex exactly while   *)
(* it stands at an append or at the release after it, so at most one       *)
(* worker is inside the append and no holder sleeps, runs a crypto step    *)
(* or claims; the lock is taken only when free, one record is appended     *)
(* under it, by its holder, and the holder's next step releases it; the    *)
(* holder can always take its step, so it keeps nobody waiting forever.    *)
(***************************************************************************)
\* worker w is between taking and releasing res_mutex
InAppend(w) ==
    pc[w] \in {"drop_push", "drop_unlock", "record_push", "record_unlock"}

C22_AppendExclusion ==
    /\ [](res_mutex \in Threads \cup {Unlocked})
    /\ [](\A w \in Threads : res_mutex = w <=> InAppend(w))
    /\ [](Cardinality({w \in Threads : InAppend(w)}) <= 1)
    /\ [](\A w \in Threads :
            (res_mutex = w /\ ~aborted) => ENABLED WorkerStep(w))
    /\ [][/\ results' # results =>
                \E w \in Threads :
                    /\ res_mutex = w
                    /\ res_mutex' = w
                    /\ pc[w] \in {"drop_push", "record_push"}
                    /\ results' = Append(results, m[w])
          /\ \A w \in Threads :
                /\ (res_mutex' = w /\ res_mutex # w) =>
                      /\ res_mutex = Unlocked
                      /\ pc[w] \in {"drop_lock", "record_lock"}
                      /\ pc'[w] \in {"drop_push", "record_push"}
                      /\ results' = results
                /\ (res_mutex = w /\ pc'[w] # pc[w]) =>
                      \/ /\ pc[w] \in {"drop_push", "record_push"}
                         /\ pc'[w] \in {"drop_unlock", "record_unlock"}
                         /\ Len(results') = Len(results) + 1
                         /\ res_mutex' = w
                      \/ /\ pc[w] \in {"drop_unlock", "record_unlock"}
                         /\ pc'[w] = "claim"
                         /\ results' = results
                         /\ res_mutex' = Unlocked
                /\ (res_mutex = w /\ pc'[w] = pc[w]) => res_mutex' = w
                /\ pc[w] = "claim" => res_mutex # w
                /\ pc'[w] = "claim" => res_mutex' # w]_vars

\* under fair scheduling every holder of res_mutex gives it back
C22_LockReleased ==
    \A w \in Threads : (res_mutex = w) ~> (res_mutex # w)

\* worker 0 is appending the record of a completed node while worker 1
\* waits for the lock with a dropped one
C22_Witness ==
    /\ res_mutex = 0
    /\ pc[0] = "record_push"
    /\ pc[1] = "drop_lock"
    /\ m[1].dropped
    /\ ~m[0].dropped

=============================================================================
